---- MODULE Spec2Model ----
(***************************************************************************)
(* ophyd/areadetector/plugins.py: the type-validation state of a plugin,   *)
(* its staging directive set, activation and deactivation, and the         *)
(* resolution of the asyn pipeline of a plugin.                            *)
(***************************************************************************)
EXTENDS Naturals, Sequences, FiniteSets

VARIABLES
    _plugin_type,     \* class attribute: the declared type, or None
    _misconfigured,   \* "None" (unknown), "True" (confirmed-bad), "False"
    stage_sigs,       \* OrderedDict: sequence of <<key, value>>
    has_cam,          \* parent is not None and hasattr(parent, 'cam')
    live,             \* value the remote PluginType_RBV record holds
    connected,        \* plugin_type signal is connected
    destroyed,        \* plugin_type signal has been destroyed
    pending,          \* connection notifications not yet delivered
    cb_pc,            \* callback context: position in _plugin_type_connected
    cb_val,           \* callback context: local plugin_type
    cb_error,         \* callback context: error that left the last callback
    pc,               \* caller thread: position in stage / unstage
    k,                \* caller thread: index of the directive being handled
    st_val,           \* caller thread: local plugin_type of the check
    outcome,          \* how the last stage call ended
    staged,           \* "no", "partially", "yes"
    original_vals,    \* snapshot taken by stage: sequence of <<key, value>>
    writes,           \* keys written by the current activation, in order
    restores,         \* keys handled by the current deactivation, in order
    restore_failed,   \* keys whose restore failed in the current deactivation
    remote,           \* remote points: key -> value
    last_checked,     \* the report compared by the last completed check
    warnings,         \* number of mismatch warnings logged
    events_left,      \* environment events the run may still take
    stages_left,      \* stage calls the run may still take
    nd_array_port,    \* plugin -> value of its NDArrayPort point
    call_stack,       \* frames of the property / method being evaluated
    ret,              \* value just returned to the frame on top
    result,           \* what the last query returned to its caller
    lookups,          \* get_plugin_by_asyn_port calls of the current query
    rewired,          \* a source port changed while the query was running
    changes_left,     \* source-port changes the run may still take
    queries_left,     \* queries the run may still take
    _plugin_class,    \* the registry: sequence of <<type identifier, class>>
    reg_result,       \* what the last register_plugin call returned
    disc_pc,          \* position in get_areadetector_plugin_class
    disc_prefix,      \* argument prefix / pv of the discovery call
    timeout,          \* argument of the discovery call
    type_,            \* local type_ of get_areadetector_plugin_class
    disc_result,      \* how the last discovery call ended
    cagets,           \* remote reads issued by discovery calls so far
    errors,           \* <<cause, exception type>> of the failures so far
    calls_left,       \* discovery calls the run may still take
    regs_left,        \* registrations the run may still take
    roi_pc,           \* position in ROIPlugin.set
    region,           \* argument of ROIPlugin.set
    direction,        \* index of the item of region being handled
    status,           \* local status of ROIPlugin.set, or Unbound
    roi_result,       \* how the last ROIPlugin.set call ended
    roi_remote,       \* the MinX..SizeZ points of the ROI: point -> value
    roi_puts,         \* <<point, value>> of the writes of the current call
    sets_left,        \* ROIPlugin.set calls the run may still take
    plugin_pc,        \* position in get_areadetector_plugin
    kwargs,           \* argument kwargs of get_areadetector_plugin
    instances,        \* the plugin instances constructed so far, in order
    plugin_result,    \* how the last get_areadetector_plugin call ended
    call_log,         \* the convenience methods called, in call order
    sigs_before,      \* stage_sigs as the constructor left it
    warm_pc,          \* position in HDF5Plugin.warmup
    warm_remote,      \* values of enable and of the six camera points
    warm_before,      \* warm_remote when warmup was called
    warm_original_vals, \* original_vals of warmup
    warm_k,           \* index of the signal the loop of warmup is at
    warm_writes,      \* <<point, value>> of the writes of the current call
    warm_result,      \* how the last warmup call ended
    warmups_left      \* warmup calls the run may still take

typeVars  == <<_plugin_type, _misconfigured, last_checked, warnings>>
envVars   == <<live, connected, destroyed, pending, events_left>>
cbVars    == <<cb_pc, cb_val, cb_error>>
sigVars   == <<stage_sigs, has_cam>>
stageVars == <<pc, k, st_val, outcome, staged, original_vals, writes,
               restores, restore_failed, remote, stages_left>>
pipeVars  == <<nd_array_port, call_stack, ret, result, lookups, rewired,
               changes_left, queries_left>>
discVars  == <<_plugin_class, reg_result, disc_pc, disc_prefix, timeout, type_,
               disc_result, cagets, errors, calls_left, regs_left>>
roiVars   == <<roi_pc, region, direction, status, roi_result, roi_remote,
               roi_puts, sets_left>>
instVars  == <<plugin_pc, kwargs, instances, plugin_result>>
logVars   == <<call_log, sigs_before>>
warmVars  == <<warm_pc, warm_remote, warm_before, warm_original_vals, warm_k,
               warm_writes, warm_result, warmups_left>>
apiVars   == <<discVars, roiVars, instVars, logVars, warmVars>>

(***************************************************************************)
(* Bounds                                                                  *)
(***************************************************************************)
MaxEvents == 3
MaxStages == 1
MaxSigEvents == 1
MaxPending == 2
MaxDepth == 4
MaxChanges == 1
MaxQueries == 2
MaxCalls == 2
MaxRegs == 1
MaxDelay == 3
MaxSets == 1
MaxCallLog == 3
MaxWarmups == 1

(***************************************************************************)
(* Type identifiers and live type reports, as character sequences.         *)
(***************************************************************************)
None == <<"None">>
ROI == <<"R", "O", "I">>
ROIStat == <<"R", "O", "I", "S", "t", "a", "t">>
Stats == <<"S", "t", "a", "t", "s">>
Version == <<" ", "1", ".", "9">>

PluginTypes == {None, ROI}
LiveReports == {ROI, ROI \o Version, ROIStat \o Version, Stats \o Version}

\* str.startswith
StartsWith(s, prefix) ==
    /\ Len(prefix) <= Len(s)
    /\ SubSeq(s, 1, Len(prefix)) = prefix

\* index of the first space of s, or Len(s) + 1
RECURSIVE FirstSpace(_, _)
FirstSpace(s, i) ==
    IF i > Len(s) THEN i
    ELSE IF s[i] = " " THEN i
    ELSE FirstSpace(s, i + 1)

\* type_.split(' ')[0]
\* no cut: the whole report
SplitFirst_Whole(s) == s

SplitFirst(s) == SubSeq(s, 1, FirstSpace(s, 1) - 1)

\* a mismatch leaves the state unknown instead of confirmed-bad
Misconfigured_Unknown(report, declared) ==
    IF StartsWith(report, declared) THEN "False" ELSE "None"

\* line 258: not plugin_type.startswith(self._plugin_type)
Misconfigured(report, declared) ==
    IF StartsWith(report, declared) THEN "False" ELSE "True"

(***************************************************************************)
(* OrderedDict operations on stage_sigs                                    *)
(***************************************************************************)
Keys(d) == {d[i][1] : i \in 1..Len(d)}

IndexOf(d, key) == CHOOSE i \in 1..Len(d) : d[i][1] = key

Value(d, key) == d[IndexOf(d, key)][2]

\* d[key] = v
SetItem(d, key, v) ==
    IF key \in Keys(d)
    THEN [i \in 1..Len(d) |-> IF d[i][1] = key THEN <<key, v>> ELSE d[i]]
    ELSE Append(d, <<key, v>>)

\* the key stays where it was inserted
MoveToFront_Stay(d, key) == d

\* d.move_to_end(key, last=False)
MoveToFront(d, key) ==
    LET i == IndexOf(d, key)
    IN  <<d[i]>> \o SubSeq(d, 1, i - 1) \o SubSeq(d, i + 1, Len(d))

\* PluginBase.enable_on_stage and the other three convenience methods
enable_on_stage(d) == SetItem(d, "enable", 1)

disable_on_stage(d) == SetItem(d, "enable", 0)

\* ensure_blocking with the value of ensure_nonblocking
ensure_blocking_No(d) == SetItem(d, "blocking_callbacks", "No")

ensure_blocking(d) == SetItem(d, "blocking_callbacks", "Yes")

\* the directive is moved to the front like 'enable' in the constructor
ensure_nonblocking_Front(d) ==
    MoveToFront(SetItem(d, "blocking_callbacks", "No"), "blocking_callbacks")

ensure_nonblocking(d) == SetItem(d, "blocking_callbacks", "No")

Methods == {"enable_on_stage", "disable_on_stage", "ensure_blocking",
            "ensure_nonblocking"}

\* getattr(plugin, name)() on the directives d
Method(name, d) ==
    CASE name = "enable_on_stage" -> enable_on_stage(d)
      [] name = "disable_on_stage" -> disable_on_stage(d)
      [] name = "ensure_blocking" -> ensure_blocking(d)
      [] name = "ensure_nonblocking" -> ensure_nonblocking(d)

\* a constructor that adds the camera directive whatever the parent is
InitStageSigs_Cam(base, cam) ==
    LET d1 == enable_on_stage(base)
        d2 == MoveToFront(d1, "enable")
        d3 == ensure_blocking(d2)
    IN  SetItem(d3, "parent.cam.array_callbacks", 1)

\* PluginBase.__init__, lines 75-80, on the directives the base constructor
\* left in stage_sigs
InitStageSigs(base, cam) ==
    LET d1 == enable_on_stage(base)
        d2 == MoveToFront(d1, "enable")
        d3 == ensure_blocking(d2)
    IN  IF cam THEN SetItem(d3, "parent.cam.array_callbacks", 1) ELSE d3

\* the state starts unknown whether or not a type is declared
InitMisconfigured_Unknown(declared) == "None"

\* PluginBase.__init__, lines 68-73
InitMisconfigured(declared) == IF declared # None THEN "None" ELSE "False"

\* directives a base constructor may have inserted before PluginBase.__init__
BaseSigs ==
    { <<>>,
      << <<"array_counter", 0>> >>,
      << <<"array_counter", 0>>, <<"enable", 0>> >>,
      << <<"blocking_callbacks", "No">>, <<"array_counter", 0>> >> }

\* values of the remote points before any activation
RemoteOff ==
    [key \in {"enable", "blocking_callbacks", "parent.cam.array_callbacks",
              "array_counter"} |->
        IF key = "blocking_callbacks" THEN "No"
        ELSE IF key = "array_counter" THEN 7 ELSE 0]

(***************************************************************************)
(* The state after construction of one plugin instance.                    *)
(***************************************************************************)
\* everything but the choice of class, parent, directives and budgets
InitRest ==
    /\ _misconfigured = InitMisconfigured(_plugin_type)
    /\ live = <<>>
    /\ connected = FALSE
    /\ destroyed = FALSE
    /\ pending = <<>>
    /\ cb_pc = "idle"
    /\ cb_val = <<>>
    /\ cb_error = "none"
    /\ pc = "idle"
    /\ k = 0
    /\ st_val = <<>>
    /\ outcome = "none"
    /\ staged = "no"
    /\ original_vals = <<>>
    /\ writes = <<>>
    /\ restores = <<>>
    /\ restore_failed = {}
    /\ last_checked = <<>>
    /\ warnings = 0

(***************************************************************************)
(* The remote server and the signal layer                                  *)
(***************************************************************************)
\* the type-report point connects; the server reports `report`
Connect(report) ==
    /\ events_left > 0
    /\ ~destroyed
    /\ ~connected
    /\ Len(pending) < MaxPending
    /\ live' = report
    /\ connected' = TRUE
    /\ pending' = Append(pending, TRUE)
    /\ events_left' = events_left - 1
    /\ UNCHANGED <<destroyed, typeVars, cbVars, sigVars, stageVars, pipeVars,
                   apiVars>>

Disconnect ==
    /\ events_left > 0
    /\ connected
    /\ Len(pending) < MaxPending
    /\ connected' = FALSE
    /\ pending' = Append(pending, FALSE)
    /\ events_left' = events_left - 1
    /\ UNCHANGED <<live, destroyed, typeVars, cbVars, sigVars, stageVars,
                   pipeVars, apiVars>>

\* the signal is destroyed; notifications already queued are still delivered
Destroy ==
    /\ events_left > 0
    /\ ~destroyed
    /\ destroyed' = TRUE
    /\ connected' = FALSE
    /\ events_left' = events_left - 1
    /\ UNCHANGED <<live, pending, typeVars, cbVars, sigVars, stageVars,
                   pipeVars, apiVars>>

\* a read that does not tell a destroyed signal from a disconnected one
Get_Undestroyed ==
    IF ~connected THEN "ConnectionTimeoutError" ELSE "value"

\* self.plugin_type.get(): the value, or the error it raises
Get ==
    IF destroyed THEN "DestroyedError"
    ELSE IF ~connected THEN "ConnectionTimeoutError"
    ELSE "value"

(***************************************************************************)
(* _plugin_type_connected on the callback context, lines 247-272           *)
(***************************************************************************)
\* lines 250-256: the early return, or the read of the type report
CbRead ==
    /\ cb_pc = "idle"
    /\ pending # <<>>
    /\ pending' = Tail(pending)
    /\ IF ~Head(pending) \/ _plugin_type = None
       THEN /\ cb_error' = "none"
            /\ UNCHANGED <<cb_pc, cb_val>>
       ELSE IF Get = "DestroyedError"
       THEN /\ cb_error' = "none"
            /\ UNCHANGED <<cb_pc, cb_val>>
       ELSE IF Get = "value"
       THEN /\ cb_pc' = "write"
            /\ cb_val' = live
            /\ cb_error' = "none"
       ELSE /\ cb_error' = Get
            /\ UNCHANGED <<cb_pc, cb_val>>
    /\ UNCHANGED <<live, connected, destroyed, events_left, typeVars, sigVars,
                   stageVars, pipeVars, apiVars>>

\* lines 258-272: the comparison and the log record
CheckType(report) ==
    /\ _misconfigured' = Misconfigured(report, _plugin_type)
    /\ last_checked' = report
    /\ warnings' = IF Misconfigured(report, _plugin_type) = "True"
                   THEN warnings + 1 ELSE warnings
    /\ UNCHANGED _plugin_type

\* a callback that takes the connection itself for a matching report
CbWrite_Trust ==
    /\ cb_pc = "write"
    /\ _misconfigured' = "False"
    /\ last_checked' = cb_val
    /\ cb_pc' = "idle"
    /\ UNCHANGED <<_plugin_type, warnings, cb_val, cb_error, envVars, sigVars,
                   stageVars, pipeVars, apiVars>>

CbWrite ==
    /\ cb_pc = "write"
    /\ CheckType(cb_val)
    /\ cb_pc' = "idle"
    /\ UNCHANGED <<cb_val, cb_error, envVars, sigVars, stageVars, pipeVars,
                   apiVars>>

(***************************************************************************)
(* Activation: super().stage(), then PluginBase.stage lines 102-113        *)
(***************************************************************************)
\* the snapshot of the remote points named by the directives
Snapshot(d) == [i \in 1..Len(d) |-> <<d[i][1], remote[d[i][1]]>>]

\* line 100, entry of the base stage: snapshot the points of the directives
StageBegin ==
    /\ pc = "idle"
    /\ staged = "no"
    /\ stages_left > 0
    /\ stages_left' = stages_left - 1
    /\ pc' = "apply"
    /\ k' = 1
    /\ outcome' = "running"
    /\ staged' = "partially"
    /\ original_vals' = Snapshot(stage_sigs)
    /\ writes' = <<>>
    /\ restores' = <<>>
    /\ restore_failed' = {}
    /\ UNCHANGED <<st_val, remote, typeVars, envVars, cbVars, sigVars,
                   pipeVars, apiVars>>

\* line 100, one directive of the base stage: written and read back
ApplyDirective ==
    /\ pc = "apply"
    /\ k <= Len(stage_sigs)
    /\ remote' = [remote EXCEPT ![stage_sigs[k][1]] = stage_sigs[k][2]]
    /\ writes' = Append(writes, stage_sigs[k][1])
    /\ k' = k + 1
    /\ UNCHANGED <<pc, st_val, outcome, staged, original_vals, restores,
                   restore_failed, stages_left, typeVars, envVars, cbVars,
                   sigVars, pipeVars, apiVars>>

\* a failing directive that puts the snapshot back before raising
ApplyFails_Rollback ==
    /\ pc = "apply"
    /\ k <= Len(stage_sigs)
    /\ pc' = "idle"
    /\ outcome' = "TimeoutError"
    /\ remote' = [key \in DOMAIN remote |->
                     IF key \in Keys(original_vals)
                     THEN Value(original_vals, key) ELSE remote[key]]
    /\ UNCHANGED <<k, st_val, staged, original_vals, writes, restores,
                   restore_failed, stages_left, typeVars, envVars, cbVars,
                   sigVars, pipeVars, apiVars>>

\* line 100, one directive of the base stage does not converge: the base
\* stage raises, nothing of lines 102-113 runs
ApplyFails ==
    /\ pc = "apply"
    /\ k <= Len(stage_sigs)
    /\ pc' = "idle"
    /\ outcome' = "TimeoutError"
    /\ UNCHANGED <<k, st_val, staged, original_vals, writes, restores,
                   restore_failed, remote, stages_left, typeVars, envVars,
                   cbVars, sigVars, pipeVars, apiVars>>

\* line 100, the base stage returns
ApplyDone ==
    /\ pc = "apply"
    /\ k > Len(stage_sigs)
    /\ pc' = "check"
    /\ staged' = "yes"
    /\ UNCHANGED <<k, st_val, outcome, original_vals, writes, restores,
                   restore_failed, remote, stages_left, typeVars, envVars,
                   cbVars, sigVars, pipeVars, apiVars>>

\* line 102: if self._misconfigured is None
StageCheck ==
    /\ pc = "check"
    /\ pc' = IF _misconfigured = "None" THEN "wait" ELSE "test"
    /\ UNCHANGED <<k, st_val, outcome, staged, original_vals, writes,
                   restores, restore_failed, remote, stages_left, typeVars,
                   envVars, cbVars, sigVars, pipeVars, apiVars>>

\* line 104: self.plugin_type.wait_for_connection()
StageWait ==
    /\ pc = "wait"
    /\ IF Get = "value"
       THEN /\ pc' = "call"
            /\ UNCHANGED outcome
       ELSE /\ pc' = "idle"
            /\ outcome' = Get
    /\ UNCHANGED <<k, st_val, staged, original_vals, writes, restores,
                   restore_failed, remote, stages_left, typeVars, envVars,
                   cbVars, sigVars, pipeVars, apiVars>>

\* line 106: self._plugin_type_connected(connected=True), lines 250-256
StageRead ==
    /\ pc = "call"
    /\ IF _plugin_type = None \/ Get = "DestroyedError"
       THEN /\ pc' = "test"
            /\ UNCHANGED <<st_val, outcome>>
       ELSE IF Get = "value"
       THEN /\ pc' = "write"
            /\ st_val' = live
            /\ UNCHANGED outcome
       ELSE /\ pc' = "idle"
            /\ outcome' = Get
            /\ UNCHANGED st_val
    /\ UNCHANGED <<k, staged, original_vals, writes, restores, restore_failed,
                   remote, stages_left, typeVars, envVars, cbVars, sigVars,
                   pipeVars, apiVars>>

\* line 106: self._plugin_type_connected(connected=True), lines 258-272
StageWrite ==
    /\ pc = "write"
    /\ CheckType(st_val)
    /\ pc' = "test"
    /\ UNCHANGED <<k, st_val, outcome, staged, original_vals, writes,
                   restores, restore_failed, remote, stages_left, envVars,
                   cbVars, sigVars, pipeVars, apiVars>>

\* line 108: if self._misconfigured
StageTest ==
    /\ pc = "test"
    /\ IF _misconfigured = "True"
       THEN /\ pc' = "raise"
            /\ UNCHANGED outcome
       ELSE /\ pc' = "idle"
            /\ outcome' = "ok"
    /\ UNCHANGED <<k, st_val, staged, original_vals, writes, restores,
                   restore_failed, remote, stages_left, typeVars, envVars,
                   cbVars, sigVars, pipeVars, apiVars>>

\* lines 109-113: the message reads self.plugin_type.get(), then the raise
StageRaise ==
    /\ pc = "raise"
    /\ pc' = "idle"
    /\ outcome' = IF Get = "value" THEN "PluginMisconfigurationError"
                  ELSE Get
    /\ UNCHANGED <<k, st_val, staged, original_vals, writes, restores,
                   restore_failed, remote, stages_left, typeVars, envVars,
                   cbVars, sigVars, pipeVars, apiVars>>

(***************************************************************************)
(* Deactivation: the base unstage                                          *)
(***************************************************************************)
UnstageBegin ==
    /\ pc = "idle"
    /\ staged # "no"
    /\ pc' = "restore"
    /\ k' = Len(writes)
    /\ restores' = <<>>
    /\ restore_failed' = {}
    /\ UNCHANGED <<st_val, outcome, staged, original_vals, writes, remote,
                   stages_left, typeVars, envVars, cbVars, sigVars, pipeVars,
                   apiVars>>

\* a restore that reports success and leaves the point as activation set it
RestoreOne_Keep ==
    /\ pc = "restore"
    /\ k >= 1
    /\ restores' = Append(restores, writes[k])
    /\ k' = k - 1
    /\ UNCHANGED <<pc, st_val, outcome, staged, original_vals, writes,
                   restore_failed, remote, stages_left, typeVars, envVars,
                   cbVars, sigVars, pipeVars, apiVars>>

\* one touched point gets its snapshot value back
RestoreOne ==
    /\ pc = "restore"
    /\ k >= 1
    /\ remote' = [remote EXCEPT ![writes[k]] = Value(original_vals, writes[k])]
    /\ restores' = Append(restores, writes[k])
    /\ k' = k - 1
    /\ UNCHANGED <<pc, st_val, outcome, staged, original_vals, writes,
                   restore_failed, stages_left, typeVars, envVars, cbVars,
                   sigVars, pipeVars, apiVars>>

\* restoring one touched point fails: reported, the rest is still restored
RestoreFails ==
    /\ pc = "restore"
    /\ k >= 1
    /\ restores' = Append(restores, writes[k])
    /\ restore_failed' = restore_failed \cup {writes[k]}
    /\ k' = k - 1
    /\ UNCHANGED <<pc, st_val, outcome, staged, original_vals, writes, remote,
                   stages_left, typeVars, envVars, cbVars, sigVars, pipeVars,
                   apiVars>>

UnstageDone ==
    /\ pc = "restore"
    /\ k = 0
    /\ pc' = "idle"
    /\ staged' = "no"
    /\ UNCHANGED <<k, st_val, outcome, original_vals, writes, restores,
                   restore_failed, remote, stages_left, typeVars, envVars,
                   cbVars, sigVars, pipeVars, apiVars>>

(***************************************************************************)
(* The convenience methods, lines 115-147, on a plugin that is not staged  *)
(***************************************************************************)
SetSigs(d) ==
    /\ pc = "idle"
    /\ staged = "no"
    /\ stage_sigs' = d
    /\ UNCHANGED <<has_cam, typeVars, envVars, cbVars, stageVars, pipeVars,
                   apiVars>>

EnableOnStage == SetSigs(enable_on_stage(stage_sigs))

DisableOnStage == SetSigs(disable_on_stage(stage_sigs))

EnsureBlocking == SetSigs(ensure_blocking(stage_sigs))

EnsureNonblocking == SetSigs(ensure_nonblocking(stage_sigs))

(***************************************************************************)
(* The pipeline: source ports, the port index of the root, configuration   *)
(***************************************************************************)
Cam == "cam"
Plugins == {"roi1", "stats1", "hdf1"}
NoPlugin == "None"

\* PortName_RBV of each member of the detector
PortName(n) ==
    CASE n = "cam" -> "CAM"
      [] n = "roi1" -> "ROI1"
      [] n = "stats1" -> "STATS1"
      [] n = "hdf1" -> "FileHDF1"

\* values an NDArrayPort point can hold; "" names no port of the detector
Ports == {PortName(n) : n \in Plugins \cup {Cam}} \cup {""}

\* self.ad_root.get_plugin_by_asyn_port(port)
get_plugin_by_asyn_port(port) ==
    IF \E n \in Plugins \cup {Cam} : PortName(n) = port
    THEN CHOOSE n \in Plugins \cup {Cam} : PortName(n) = port
    ELSE NoPlugin

\* super().read_configuration() / super().describe_configuration() of a
\* member: its own fields, one of them under a name every member uses
OwnConfiguration(kind, n) ==
    IF kind = "read_configuration"
    THEN << <<PortName(n), <<"value", n>> >>, <<"model", <<"value", n>> >> >>
    ELSE << <<PortName(n), <<"dtype", n>> >>, <<"model", <<"dtype", n>> >> >>

\* OrderedDict.update(other)
RECURSIVE Update(_, _)
Update(d, other) ==
    IF other = <<>> THEN d
    ELSE Update(SetItem(d, other[1][1], other[1][2]), Tail(other))

\* lines 166-170 and 181-186: ret = super()...; ret.update(source's); return
MergeConfiguration(own, source) == Update(own, source)

\* line 193: return (parent, self)
PipelineOfRoot(parent, self) == <<parent, self>>

\* the plugin is put in front of the pipeline of its parent
PipelineOfPlugin_Front(pipeline, self) == <<self>> \o pipeline

\* line 192: return parent._asyn_pipeline + (self, )
PipelineOfPlugin(pipeline, self) == pipeline \o <<self>>

QueryKinds == {"_asyn_pipeline", "read_configuration",
               "describe_configuration"}

NoRet == [status |-> "none", value |-> <<>>]

\* `before` is what the previous query returned when it was the same call
NoResult == [status |-> "none", kind |-> "none", of |-> "none",
             value |-> <<>>, lookups |-> 0, rewired |-> FALSE,
             before |-> <<>>]

\* the value the previous query returned, when it was the query `kind` of
\* `plugin`
Before(kind, plugin) ==
    IF result.status = "ok" /\ result.kind = kind /\ result.of = plugin
    THEN result.value ELSE <<>>

Top == call_stack[Len(call_stack)]

Pop == SubSeq(call_stack, 1, Len(call_stack) - 1)

\* the frame on top moves on, its local parent / source_plugin bound
SetTop(ph, parent) ==
    [call_stack EXCEPT ![Len(call_stack)].phase = ph,
                       ![Len(call_stack)].parent = parent]

Frame(kind, n) ==
    [kind |-> kind, node |-> n, phase |-> "lookup", parent |-> NoPlugin]

\* the staging side is idle while the pipeline is queried
stagingVars == <<typeVars, envVars, cbVars, sigVars, stageVars>>

\* a query that answers from what the same call returned before
Query_Cached(kind, plugin) ==
    /\ call_stack = <<>>
    /\ ret.status = "none"
    /\ queries_left > 0
    /\ queries_left' = queries_left - 1
    /\ lookups' = 0
    /\ rewired' = FALSE
    /\ result' = [NoResult EXCEPT !.status = "running", !.kind = kind,
                                  !.of = plugin,
                                  !.before = Before(kind, plugin)]
    /\ IF Before(kind, plugin) # <<>>
       THEN /\ call_stack' = <<>>
            /\ ret' = [status |-> "value", value |-> Before(kind, plugin)]
       ELSE /\ call_stack' = <<Frame(kind, plugin)>>
            /\ UNCHANGED ret
    /\ UNCHANGED <<nd_array_port, changes_left, stagingVars, apiVars>>

\* the caller reads plugin._asyn_pipeline or calls plugin.read_configuration()
\* or plugin.describe_configuration()
Query(kind, plugin) ==
    /\ call_stack = <<>>
    /\ ret.status = "none"
    /\ queries_left > 0
    /\ queries_left' = queries_left - 1
    /\ call_stack' = <<Frame(kind, plugin)>>
    /\ lookups' = 0
    /\ rewired' = FALSE
    /\ result' = [NoResult EXCEPT !.status = "running", !.kind = kind,
                                  !.of = plugin,
                                  !.before = Before(kind, plugin)]
    /\ UNCHANGED <<nd_array_port, ret, changes_left, stagingVars, apiVars>>

NamesKind == "_asyn_pipeline_configuration_names"

\* line 197: _.configuration_names.name, the name of the configuration_names
\* signal of one member of the detector
ConfigurationName(n) == <<n, "configuration_names">>

\* the names are listed from the queried plugin back to the root
ConfigurationNames_Reversed(pipeline) ==
    [i \in 1..Len(pipeline) |->
        ConfigurationName(pipeline[Len(pipeline) + 1 - i])]

\* line 197: [_.configuration_names.name for _ in self._asyn_pipeline]
ConfigurationNames(pipeline) ==
    [i \in 1..Len(pipeline) |-> ConfigurationName(pipeline[i])]

\* lines 195-197: the caller reads plugin._asyn_pipeline_configuration_names,
\* which evaluates plugin._asyn_pipeline
NamesQuery(plugin) ==
    /\ call_stack = <<>>
    /\ ret.status = "none"
    /\ queries_left > 0
    /\ queries_left' = queries_left - 1
    /\ call_stack' = <<[Frame(NamesKind, plugin) EXCEPT !.phase = "eval"],
                       Frame("_asyn_pipeline", plugin)>>
    /\ lookups' = 0
    /\ rewired' = FALSE
    /\ result' = [NoResult EXCEPT !.status = "running", !.kind = NamesKind,
                                  !.of = plugin,
                                  !.before = Before(NamesKind, plugin)]
    /\ UNCHANGED <<nd_array_port, ret, changes_left, stagingVars, apiVars>>

\* line 197: the list comprehension over the pipeline; a member of None has
\* no configuration_names
NamesReturn ==
    /\ call_stack # <<>>
    /\ Top.kind = NamesKind
    /\ ret.status = "value"
    /\ call_stack' = Pop
    /\ IF \E i \in 1..Len(ret.value) : ret.value[i] = NoPlugin
       THEN /\ ret' = NoRet
            /\ result' = [result EXCEPT !.status = "AttributeError",
                                        !.lookups = lookups,
                                        !.rewired = rewired]
       ELSE /\ ret' = [ret EXCEPT !.value = ConfigurationNames(ret.value)]
            /\ UNCHANGED result
    /\ UNCHANGED <<nd_array_port, lookups, rewired, changes_left,
                   queries_left, stagingVars, apiVars>>

\* the query ends with an error that no frame handles
Raise(error) ==
    /\ call_stack' = <<>>
    /\ ret' = NoRet
    /\ result' = [result EXCEPT !.status = error, !.lookups = lookups + 1,
                                !.rewired = rewired]

\* line 190, and line 191 when the parent has no _asyn_pipeline
PipelineLookup ==
    /\ call_stack # <<>>
    /\ Top.kind = "_asyn_pipeline"
    /\ Top.phase = "lookup"
    /\ lookups' = lookups + 1
    /\ LET parent == get_plugin_by_asyn_port(nd_array_port[Top.node])
       IN  IF parent \in Plugins
           THEN \* hasattr evaluates the property of the parent
                IF Len(call_stack) >= MaxDepth
                THEN Raise("RecursionError")
                ELSE /\ call_stack' = Append(SetTop("hasattr", parent),
                                             Frame("_asyn_pipeline", parent))
                     /\ UNCHANGED <<ret, result>>
           ELSE /\ call_stack' = Pop
                /\ ret' = [status |-> "value",
                           value |-> PipelineOfRoot(parent, Top.node)]
                /\ UNCHANGED result
    /\ UNCHANGED <<nd_array_port, rewired, changes_left, queries_left,
                   stagingVars, apiVars>>

\* line 191 answered True: line 192 evaluates parent._asyn_pipeline
PipelineHasattr ==
    /\ call_stack # <<>>
    /\ Top.kind = "_asyn_pipeline"
    /\ Top.phase = "hasattr"
    /\ ret.status = "value"
    /\ ret' = NoRet
    /\ call_stack' = Append(SetTop("eval", Top.parent),
                            Frame("_asyn_pipeline", Top.parent))
    /\ UNCHANGED <<nd_array_port, result, lookups, rewired, changes_left,
                   queries_left, stagingVars, apiVars>>

\* line 192: the pipeline of the parent plus this plugin
PipelineReturn ==
    /\ call_stack # <<>>
    /\ Top.kind = "_asyn_pipeline"
    /\ Top.phase = "eval"
    /\ ret.status = "value"
    /\ ret' = [ret EXCEPT !.value = PipelineOfPlugin(ret.value, Top.node)]
    /\ call_stack' = Pop
    /\ UNCHANGED <<nd_array_port, result, lookups, rewired, changes_left,
                   queries_left, stagingVars, apiVars>>

\* lines 166-168 / 181-184: own configuration, source_plugin (lines 176-178)
\* and the call of its read_configuration / describe_configuration
ConfigurationLookup ==
    /\ call_stack # <<>>
    /\ Top.kind # "_asyn_pipeline"
    /\ Top.phase = "lookup"
    /\ lookups' = lookups + 1
    /\ LET source_plugin == get_plugin_by_asyn_port(nd_array_port[Top.node])
       IN  IF source_plugin = NoPlugin
           THEN Raise("AttributeError")
           ELSE IF source_plugin = Cam
           THEN /\ call_stack' = Pop
                /\ ret' = [status |-> "value",
                           value |-> MergeConfiguration(
                               OwnConfiguration(Top.kind, Top.node),
                               OwnConfiguration(Top.kind, Cam))]
                /\ UNCHANGED result
           ELSE IF Len(call_stack) >= MaxDepth
           THEN Raise("RecursionError")
           ELSE /\ call_stack' = Append(SetTop("update", source_plugin),
                                        Frame(Top.kind, source_plugin))
                /\ UNCHANGED <<ret, result>>
    /\ UNCHANGED <<nd_array_port, rewired, changes_left, queries_left,
                   stagingVars, apiVars>>

\* lines 168-170 / 184-186: ret.update(...) and return ret
ConfigurationReturn ==
    /\ call_stack # <<>>
    /\ Top.kind # "_asyn_pipeline"
    /\ Top.phase = "update"
    /\ ret.status = "value"
    /\ ret' = [ret EXCEPT !.value = MergeConfiguration(
                              OwnConfiguration(Top.kind, Top.node), ret.value)]
    /\ call_stack' = Pop
    /\ UNCHANGED <<nd_array_port, result, lookups, rewired, changes_left,
                   queries_left, stagingVars, apiVars>>

\* the outermost frame returns to the caller
QueryReturn ==
    /\ call_stack = <<>>
    /\ ret.status = "value"
    /\ ret' = NoRet
    /\ result' = [result EXCEPT !.status = "ok", !.value = ret.value,
                                !.lookups = lookups, !.rewired = rewired]
    /\ UNCHANGED <<nd_array_port, call_stack, lookups, rewired, changes_left,
                   queries_left, stagingVars, apiVars>>

\* somebody writes the NDArrayPort point of a plugin
SetPort(plugin, port) ==
    /\ changes_left > 0
    /\ nd_array_port[plugin] # port
    /\ changes_left' = changes_left - 1
    /\ nd_array_port' = [nd_array_port EXCEPT ![plugin] = port]
    /\ rewired' = (rewired \/ call_stack # <<>> \/ ret.status # "none")
    /\ UNCHANGED <<call_stack, ret, result, lookups, queries_left,
                   stagingVars, apiVars>>

(***************************************************************************)
(* The registry and discovery, lines 51-59 and 896-945                     *)
(***************************************************************************)
\* type identifiers of the other registered classes, abbreviated like ROI
\* and Stats: NDPluginStdArrays, NDFileHDF5, and one of a user's class
StdArrays == <<"S", "t", "d">>
HDF5 == <<"H", "D", "F", "5">>
UserType == <<"U", "s", "r">>

NoClass == "None"

\* the classes of the module that carry @register_plugin (four of them),
\* and two classes a user registers: a subclass of StatsPlugin and a class
\* with a type identifier of its own
ModuleClasses == <<"ImagePlugin", "StatsPlugin", "ROIPlugin", "HDF5Plugin">>

Classes == {ModuleClasses[i] : i \in 1..Len(ModuleClasses)}
               \cup {"UserStatsPlugin", "UserPlugin"}

\* cls._plugin_type
plugin_type_of(cls) ==
    CASE cls = "ImagePlugin" -> StdArrays
      [] cls = "StatsPlugin" -> Stats
      [] cls = "UserStatsPlugin" -> Stats
      [] cls = "ROIPlugin" -> ROI
      [] cls = "HDF5Plugin" -> HDF5
      [] cls = "UserPlugin" -> UserType

\* cls._suffix_re, one token per character, "\\d" for the digit class
suffix_re_of(cls) ==
    CASE cls = "ImagePlugin" -> <<"i", "m", "a", "g", "e", "\\d", ":">>
      [] cls = "StatsPlugin" -> <<"S", "t", "a", "t", "s", "\\d", ":">>
      [] cls = "UserStatsPlugin" -> <<"S", "t", "a", "t", "s", "\\d", ":">>
      [] cls = "ROIPlugin" -> <<"R", "O", "I", "\\d", ":">>
      [] cls = "HDF5Plugin" -> <<"H", "D", "F", "\\d", ":">>
      [] cls = "UserPlugin" -> <<"U", "s", "r", "\\d", ":">>

Digits == {"0", "1", "2", "3", "4", "5", "6", "7", "8", "9"}

\* one token of a pattern against one character
TokenMatches(token, ch) == IF token = "\\d" THEN ch \in Digits ELSE token = ch

\* the pattern matches pv from position i on
MatchAt(pattern, pv, i) ==
    /\ i + Len(pattern) - 1 <= Len(pv)
    /\ \A j \in 1..Len(pattern) : TokenMatches(pattern[j], pv[i + j - 1])

\* re.search(pattern, pv) finds a match
re_search(pattern, pv) == \E i \in 1..Len(pv) : MatchAt(pattern, pv, i)

\* a keep-the-first registration
register_plugin_Keep(d, cls) ==
    IF plugin_type_of(cls) \in Keys(d) THEN d
    ELSE Append(d, <<plugin_type_of(cls), cls>>)

\* line 58: _plugin_class[cls._plugin_type] = cls
register_plugin(d, cls) == SetItem(d, plugin_type_of(cls), cls)

\* the registry after the import of the module
ModuleRegistry ==
    register_plugin(
        register_plugin(
            register_plugin(
                register_plugin(<<>>, ModuleClasses[1]),
                ModuleClasses[2]),
            ModuleClasses[3]),
        ModuleClasses[4])

\* the class of the last entry whose pattern is found
plugin_from_pvname_Last(d, pv) ==
    IF \E i \in 1..Len(d) : re_search(suffix_re_of(d[i][2]), pv)
    THEN d[CHOOSE i \in 1..Len(d) :
               /\ re_search(suffix_re_of(d[i][2]), pv)
               /\ \A j \in (i + 1)..Len(d) :
                      ~re_search(suffix_re_of(d[j][2]), pv)][2]
    ELSE NoClass

\* lines 902-907: the class of the first entry whose pattern is found
plugin_from_pvname(d, pv) ==
    IF \E i \in 1..Len(d) : re_search(suffix_re_of(d[i][2]), pv)
    THEN d[CHOOSE i \in 1..Len(d) :
               /\ re_search(suffix_re_of(d[i][2]), pv)
               /\ \A j \in 1..(i - 1) :
                      ~re_search(suffix_re_of(d[j][2]), pv)][2]
    ELSE NoClass

\* prefixes handed to discovery
XF == <<"X", "F", ":">>
cam1 == <<"c", "a", "m", "1", ":">>
image1 == <<"i", "m", "a", "g", "e", "1", ":">>
Stats7 == <<"S", "t", "a", "t", "s", "7", ":">>
ROI2 == <<"R", "O", "I", "2", ":">>

Prefixes == {Stats7, XF \o Stats7, image1 \o Stats7, Stats7 \o ROI2,
             XF \o cam1, Stats7 \o cam1}

\* line 910: timeout=2.0
DefaultTimeout == 2

Timeouts == {1, DefaultTimeout}

Delays == 1..MaxDelay

\* what the type-report point at a prefix may answer
TypeReports == LiveReports \cup {HDF5 \o Version}

ValueError == "ValueError"

NoError == [type |-> "none", message |-> <<>>]

\* line 936
TimedOut == [type |-> ValueError, message |-> <<"caget timed out">>]

\* lines 944-945
UnableFor(key) == [type |-> ValueError, message |-> <<"PluginType=", key>>]

NoDiscResult ==
    [call |-> "none", status |-> "none", value |-> NoClass,
     error |-> NoError, read |-> FALSE]

Returns(call, cls, read) ==
    [call |-> call, status |-> "return", value |-> cls, error |-> NoError,
     read |-> read]

Raises(call, error, read) ==
    [call |-> call, status |-> "raise", value |-> NoClass, error |-> error,
     read |-> read]

\* a class definition carrying @register_plugin is executed
RegisterPlugin(cls) ==
    /\ regs_left > 0
    /\ regs_left' = regs_left - 1
    /\ _plugin_class' = register_plugin(_plugin_class, cls)
    /\ reg_result' = cls
    /\ UNCHANGED <<disc_pc, disc_prefix, timeout, type_, disc_result, cagets,
                   errors, calls_left, stagingVars, pipeVars, roiVars,
                   instVars, logVars, warmVars>>

\* a caller calls plugin_from_pvname(pv)
PluginFromPvname(pv) ==
    /\ disc_pc = "idle"
    /\ plugin_pc = "idle"
    /\ calls_left > 0
    /\ calls_left' = calls_left - 1
    /\ disc_prefix' = pv
    /\ disc_result' = Returns("plugin_from_pvname",
                              plugin_from_pvname(_plugin_class, pv), FALSE)
    /\ UNCHANGED <<_plugin_class, reg_result, disc_pc, timeout, type_, cagets,
                   errors, regs_left, stagingVars, pipeVars, roiVars,
                   instVars, logVars, warmVars>>

\* lines 928-933: get_areadetector_plugin_class(pv, t) up to the remote read
GetClass(pv, t) ==
    /\ disc_pc = "idle"
    /\ calls_left > 0
    /\ calls_left' = calls_left - 1
    /\ disc_prefix' = pv
    /\ timeout' = t
    /\ LET cls == plugin_from_pvname(_plugin_class, pv)
       IN  IF cls # NoClass
           THEN /\ disc_result' =
                       Returns("get_areadetector_plugin_class", cls, FALSE)
                /\ UNCHANGED <<disc_pc, cagets>>
           ELSE /\ disc_pc' = "caget"
                /\ cagets' = cagets + 1
                /\ disc_result' =
                       [NoDiscResult EXCEPT
                            !.call = "get_areadetector_plugin_class",
                            !.status = "running", !.read = TRUE]
    /\ UNCHANGED <<_plugin_class, reg_result, type_, errors, regs_left,
                   stagingVars, pipeVars, roiVars, logVars, warmVars>>

\* a caller calls get_areadetector_plugin_class(pv, t)
GetClassBegin(pv, t) ==
    /\ plugin_pc = "idle"
    /\ GetClass(pv, t)
    /\ UNCHANGED instVars

\* the keyword arguments a caller passes on to the constructor
Kwargs == {<<>>, << <<"name", "det_plugin">> >>}

NoInstance == [cls |-> NoClass, prefix |-> <<>>, kwargs |-> <<>>]

NoPluginResult == [status |-> "none", value |-> NoInstance, error |-> NoError]

\* an instance that is not of the class asked for
Construct_Base(cls, pv, kw) ==
    [cls |-> "PluginBase", prefix |-> pv, kwargs |-> kw]

\* line 970: cls(prefix, **kwargs)
Construct(cls, pv, kw) == [cls |-> cls, prefix |-> pv, kwargs |-> kw]

\* line 966: get_areadetector_plugin(pv, **kw) calls
\* get_areadetector_plugin_class(prefix), with the timeout of its signature
GetPluginBegin(pv, kw) ==
    /\ plugin_pc = "idle"
    /\ plugin_pc' = "class"
    /\ kwargs' = kw
    /\ plugin_result' = [NoPluginResult EXCEPT !.status = "running"]
    /\ GetClass(pv, DefaultTimeout)
    /\ UNCHANGED instances

\* lines 966-970: the class call has ended; its error passes through, a
\* class of None raises, any other class is instantiated
GetPluginEnd ==
    /\ plugin_pc = "class"
    /\ disc_pc = "idle"
    /\ plugin_pc' = "idle"
    /\ IF disc_result.status = "raise"
       THEN /\ plugin_result' =
                   [NoPluginResult EXCEPT !.status = "raise",
                                          !.error = disc_result.error]
            /\ UNCHANGED instances
       ELSE IF disc_result.value = NoClass
       THEN /\ plugin_result' =
                   [NoPluginResult EXCEPT
                        !.status = "raise",
                        !.error = [type |-> ValueError, message |-> <<>>]]
            /\ UNCHANGED instances
       ELSE LET instance == Construct(disc_result.value, disc_prefix, kwargs)
            IN  /\ plugin_result' =
                       [NoPluginResult EXCEPT !.status = "return",
                                              !.value = instance]
                /\ instances' = Append(instances, instance)
    /\ UNCHANGED <<kwargs, discVars, roiVars, stagingVars, pipeVars, logVars,
                   warmVars>>

\* line 933: cl.caget(type_rbv, timeout=timeout) returns the report of the
\* point, or None when the answer takes longer than the timeout
Caget(report, delay) ==
    /\ disc_pc = "caget"
    /\ disc_pc' = "lookup"
    /\ type_' = IF delay <= timeout THEN report ELSE None
    /\ UNCHANGED <<_plugin_class, reg_result, disc_prefix, timeout,
                   disc_result, cagets, errors, calls_left, regs_left,
                   stagingVars, pipeVars, roiVars, instVars, logVars,
                   warmVars>>

\* a lookup that answers with the class registered first
GetClassLookup_First ==
    /\ disc_pc = "lookup"
    /\ disc_pc' = "idle"
    /\ IF type_ = None
       THEN /\ disc_result' = Raises(disc_result.call, TimedOut, TRUE)
            /\ errors' = errors \cup {<<"timeout", TimedOut.type>>}
       ELSE IF SplitFirst(type_) \in Keys(_plugin_class)
       THEN /\ disc_result' = Returns(disc_result.call,
                                  _plugin_class[1][2],
                                  TRUE)
            /\ UNCHANGED errors
       ELSE /\ disc_result' = Raises(disc_result.call,
                                     UnableFor(SplitFirst(type_)), TRUE)
            /\ errors' = errors \cup
                   {<<"unregistered", UnableFor(SplitFirst(type_)).type>>}
    /\ UNCHANGED <<_plugin_class, reg_result, disc_prefix, timeout, type_,
                   cagets, calls_left, regs_left, stagingVars, pipeVars,
                   roiVars, instVars, logVars, warmVars>>

\* lines 935-945
GetClassLookup ==
    /\ disc_pc = "lookup"
    /\ disc_pc' = "idle"
    /\ IF type_ = None
       THEN /\ disc_result' = Raises(disc_result.call, TimedOut, TRUE)
            /\ errors' = errors \cup {<<"timeout", TimedOut.type>>}
       ELSE IF SplitFirst(type_) \in Keys(_plugin_class)
       THEN /\ disc_result' = Returns(disc_result.call,
                                  Value(_plugin_class, SplitFirst(type_)),
                                  TRUE)
            /\ UNCHANGED errors
       ELSE /\ disc_result' = Raises(disc_result.call,
                                     UnableFor(SplitFirst(type_)), TRUE)
            /\ errors' = errors \cup
                   {<<"unregistered", UnableFor(SplitFirst(type_)).type>>}
    /\ UNCHANGED <<_plugin_class, reg_result, disc_prefix, timeout, type_,
                   cagets, calls_left, regs_left, stagingVars, pipeVars,
                   roiVars, instVars, logVars, warmVars>>

\* nobody is calling get_areadetector_plugin, no instance exists
InstRest ==
    /\ plugin_pc = "idle"
    /\ kwargs = <<>>
    /\ instances = <<>>
    /\ plugin_result = NoPluginResult

\* the registry of the module, nobody is calling discovery
DiscRest ==
    /\ _plugin_class = ModuleRegistry
    /\ reg_result = NoClass
    /\ disc_pc = "idle"
    /\ disc_prefix = <<>>
    /\ timeout = DefaultTimeout
    /\ type_ = None
    /\ disc_result = NoDiscResult
    /\ cagets = 0
    /\ errors = {}

\* no discovery call and no registration may start
DiscIdle ==
    /\ DiscRest
    /\ InstRest
    /\ calls_left = 0
    /\ regs_left = 0

(***************************************************************************)
(* ROIPlugin.set, lines 646-668                                            *)
(***************************************************************************)
Axes == <<"x", "y", "z">>

\* the attribute names of lines 663-666, and the points behind them
MinPoint(axis) == <<"min_xyz", "min_" \o axis>>

SizePoint(axis) == <<"size", axis>>

RoiPoints == {MinPoint(Axes[i]) : i \in 1..Len(Axes)}
                 \cup {SizePoint(Axes[i]) : i \in 1..Len(Axes)}

\* one item of a region dictionary: axis -> [min, size]
Item(axis) ==
    CASE axis = "x" -> <<"x", <<10, 100>> >>
      [] axis = "y" -> <<"y", <<20, 200>> >>
      [] axis = "z" -> <<"z", <<30, 300>> >>

\* a region argument: None, or a dictionary with its items in order
NoRegion == [is_none |-> TRUE, items |-> <<>>]

Dict(items) == [is_none |-> FALSE, items |-> items]

\* the region arguments: None, and dictionaries over every subset of the
\* axes
Regions ==
    { NoRegion, Dict(<<>>),
      Dict(<<Item("x")>>), Dict(<<Item("y")>>), Dict(<<Item("z")>>),
      Dict(<<Item("x"), Item("y")>>), Dict(<<Item("y"), Item("x")>>),
      Dict(<<Item("x"), Item("z")>>), Dict(<<Item("y"), Item("z")>>),
      Dict(<<Item("x"), Item("y"), Item("z")>>) }

\* the local status: not bound, or bound to a list
Unbound == [bound |-> FALSE, list |-> <<>>]

List(statuses) == [bound |-> TRUE, list |-> statuses]

\* a combination that keeps the right operand only
and_Right(a, b) == b

\* line 668: operator.and_ on two statuses
and_(a, b) == a /\ b

\* line 668: functools.reduce(operator.and_, status) of a non-empty list
RECURSIVE reduce_and(_)
reduce_and(statuses) ==
    IF Len(statuses) = 1 THEN statuses[1]
    ELSE and_(reduce_and(SubSeq(statuses, 1, Len(statuses) - 1)),
              statuses[Len(statuses)])

NoRoiResult == [status |-> "none", value |-> FALSE, error |-> "none"]

\* lines 661-662: the call, the test of region and status = []
RoiSet(r) ==
    /\ roi_pc = "idle"
    /\ sets_left > 0
    /\ sets_left' = sets_left - 1
    /\ region' = r
    /\ direction' = 1
    /\ roi_puts' = <<>>
    /\ roi_result' = [NoRoiResult EXCEPT !.status = "running"]
    /\ IF ~r.is_none
       THEN /\ status' = List(<<>>)
            /\ roi_pc' = "loop"
       ELSE /\ status' = Unbound
            /\ roi_pc' = "reduce"
    /\ UNCHANGED <<roi_remote, discVars, stagingVars, pipeVars, instVars,
                   logVars, warmVars>>

\* one signal.set(value): the put is issued and its status is appended; a
\* put that fails may or may not have reached the point
Put(point, value, ok, landed) ==
    /\ ok => landed
    /\ roi_puts' = Append(roi_puts, <<point, value>>)
    /\ status' = List(Append(status.list, ok))
    /\ roi_remote' = IF landed THEN [roi_remote EXCEPT ![point] = value]
                      ELSE roi_remote

\* line 663: the loop takes the next item, or ends
RoiLoop ==
    /\ roi_pc = "loop"
    /\ roi_pc' = IF direction <= Len(region.items) THEN "min" ELSE "reduce"
    /\ UNCHANGED <<region, direction, status, roi_result, roi_remote,
                   roi_puts, sets_left, discVars, stagingVars, pipeVars,
                   instVars, logVars, warmVars>>

\* lines 664-665: min_xyz.min_<direction>.set(value[0])
RoiSetMin(ok, landed) ==
    /\ roi_pc = "min"
    /\ roi_pc' = "size"
    /\ Put(MinPoint(region.items[direction][1]),
           region.items[direction][2][1], ok, landed)
    /\ UNCHANGED <<region, direction, roi_result, sets_left, discVars,
                   stagingVars, pipeVars, instVars, logVars, warmVars>>

\* lines 666-667: size.<direction>.set(value[1])
RoiSetSize(ok, landed) ==
    /\ roi_pc = "size"
    /\ roi_pc' = "loop"
    /\ direction' = direction + 1
    /\ Put(SizePoint(region.items[direction][1]),
           region.items[direction][2][2], ok, landed)
    /\ UNCHANGED <<region, roi_result, sets_left, discVars, stagingVars,
                   pipeVars, instVars, logVars, warmVars>>

\* line 668: return functools.reduce(operator.and_, status)
RoiReduce ==
    /\ roi_pc = "reduce"
    /\ roi_pc' = "idle"
    /\ roi_result' =
           IF ~status.bound
           THEN [NoRoiResult EXCEPT !.status = "raise",
                                    !.error = "UnboundLocalError"]
           ELSE IF status.list = <<>>
           THEN [NoRoiResult EXCEPT !.status = "raise",
                                    !.error = "TypeError"]
           ELSE [NoRoiResult EXCEPT !.status = "return",
                                    !.value = reduce_and(status.list)]
    /\ UNCHANGED <<region, direction, status, roi_remote, roi_puts, sets_left,
                   discVars, stagingVars, pipeVars, instVars, logVars,
                   warmVars>>

\* values of the points of the ROI before any call
RoiRemoteOff == [point \in RoiPoints |-> 0]

\* nobody is calling ROIPlugin.set
RoiRest ==
    /\ roi_pc = "idle"
    /\ region = NoRegion
    /\ direction = 1
    /\ status = Unbound
    /\ roi_result = NoRoiResult
    /\ roi_remote = RoiRemoteOff
    /\ roi_puts = <<>>

RoiIdle ==
    /\ RoiRest
    /\ sets_left = 0

(***************************************************************************)
(* The convenience methods called one after another, lines 115-147         *)
(***************************************************************************)
\* one of enable_on_stage, disable_on_stage, ensure_blocking and
\* ensure_nonblocking is called on the unstaged plugin
Call(name) ==
    /\ Len(call_log) < MaxCallLog
    /\ pc = "idle"
    /\ staged = "no"
    /\ stage_sigs' = Method(name, stage_sigs)
    /\ call_log' = Append(call_log, name)
    /\ UNCHANGED <<sigs_before, has_cam, typeVars, envVars, cbVars, stageVars,
                   pipeVars, discVars, roiVars, instVars, warmVars>>

\* no call is recorded
LogIdle ==
    /\ call_log = <<>>
    /\ sigs_before = <<>>

(***************************************************************************)
(* HDF5Plugin.warmup, lines 855-881                                        *)
(***************************************************************************)
\* lines 863-868: the camera signals and their warm-up values, in order
WarmupSigs ==
    << <<"parent.cam.array_callbacks", 1>>,
       <<"parent.cam.image_mode", "Single">>,
       <<"parent.cam.trigger_mode", "Internal">>,
       <<"parent.cam.acquire_time", 1>>,
       <<"parent.cam.acquire_period", 1>>,
       <<"parent.cam.acquire", 1>> >>

WarmupKeys == {"enable"} \cup Keys(WarmupSigs)

\* values the points may hold when warmup is called
WarmupRemotes ==
    { [key \in WarmupKeys |->
          CASE key = "enable" -> en
            [] key = "parent.cam.array_callbacks" -> cb
            [] key = "parent.cam.image_mode" -> im
            [] key = "parent.cam.trigger_mode" -> tm
            [] key = "parent.cam.acquire_time" -> at
            [] key = "parent.cam.acquire_period" -> at + 1
            [] key = "parent.cam.acquire" -> ac] :
        en \in {0, 1}, cb \in {0, 1}, im \in {"Single", "Continuous"},
        tm \in {"Internal", "External"}, at \in {1, 5}, ac \in {0, 1} }

WarmupOff ==
    [key \in WarmupKeys |->
        CASE key = "parent.cam.image_mode" -> "Continuous"
          [] key = "parent.cam.trigger_mode" -> "Internal"
          [] OTHER -> 0]

\* set_and_wait(sig, val): the write is confirmed, or it raises after the
\* value has or has not reached the point
SetAndWait(key, val, ok, landed) ==
    /\ warm_remote' = IF ok \/ landed
                      THEN [warm_remote EXCEPT ![key] = val]
                      ELSE warm_remote
    /\ warm_writes' = IF ok \/ landed
                      THEN Append(warm_writes, <<key, val>>)
                      ELSE warm_writes
    /\ warm_result' = IF ok THEN warm_result ELSE "TimeoutError"

WarmupFrame == <<stagingVars, pipeVars, discVars, roiVars, instVars, logVars>>

\* line 862: warmup is called and sets the plugin's enable to 1
Warmup(ok, landed) ==
    /\ warm_pc = "idle"
    /\ warmups_left > 0
    /\ warmups_left' = warmups_left - 1
    /\ warm_before' = warm_remote
    /\ warm_original_vals' = <<>>
    /\ warm_k' = 0
    /\ warm_pc' = IF ok THEN "snapshot" ELSE "idle"
    /\ warm_remote' = IF ok \/ landed
                      THEN [warm_remote EXCEPT !["enable"] = 1]
                      ELSE warm_remote
    /\ warm_writes' = IF ok \/ landed THEN << <<"enable", 1>> >> ELSE <<>>
    /\ warm_result' = IF ok THEN "running" ELSE "TimeoutError"
    /\ UNCHANGED WarmupFrame

\* line 871: original_vals = {sig: sig.get() for sig in sigs}
WarmupSnapshot ==
    /\ warm_pc = "snapshot"
    /\ warm_original_vals' =
           [i \in 1..Len(WarmupSigs) |->
               <<WarmupSigs[i][1], warm_remote[WarmupSigs[i][1]]>>]
    /\ warm_k' = 1
    /\ warm_pc' = "write"
    /\ UNCHANGED <<warm_remote, warm_before, warm_writes, warm_result,
                   warmups_left, WarmupFrame>>

\* lines 873-875: one turn of the loop over sigs.items()
WarmupWrite(ok, landed) ==
    /\ warm_pc = "write"
    /\ SetAndWait(WarmupSigs[warm_k][1], WarmupSigs[warm_k][2], ok, landed)
    /\ IF ~ok
       THEN warm_pc' = "idle" /\ UNCHANGED warm_k
       ELSE IF warm_k < Len(WarmupSigs)
       THEN warm_k' = warm_k + 1 /\ UNCHANGED warm_pc
       ELSE warm_pc' = "restore" /\ UNCHANGED warm_k
    /\ UNCHANGED <<warm_before, warm_original_vals, warmups_left,
                   WarmupFrame>>

\* a turn that writes the warm-up value again instead of the snapshot
WarmupRestore_Again(ok, landed) ==
    /\ warm_pc = "restore"
    /\ SetAndWait(WarmupSigs[warm_k][1], WarmupSigs[warm_k][2], ok, landed)
    /\ IF ~ok
       THEN warm_pc' = "idle" /\ UNCHANGED warm_k
       ELSE IF warm_k > 1
       THEN warm_k' = warm_k - 1 /\ UNCHANGED <<warm_pc>>
       ELSE /\ warm_pc' = "idle"
            /\ warm_k' = 0
    /\ UNCHANGED <<warm_before, warm_original_vals, warmups_left,
                   WarmupFrame>>

\* lines 879-881: one turn of the loop over
\* reversed(list(original_vals.items()))
WarmupRestore(ok, landed) ==
    /\ warm_pc = "restore"
    /\ SetAndWait(warm_original_vals[warm_k][1],
                  warm_original_vals[warm_k][2], ok, landed)
    /\ IF ~ok
       THEN warm_pc' = "idle" /\ UNCHANGED warm_k
       ELSE IF warm_k > 1
       THEN warm_k' = warm_k - 1 /\ UNCHANGED <<warm_pc>>
       ELSE /\ warm_pc' = "idle"
            /\ warm_k' = 0
    /\ UNCHANGED <<warm_before, warm_original_vals, warmups_left,
                   WarmupFrame>>

\* line 881 was the last statement: warmup returns
WarmupReturn ==
    /\ warm_pc = "idle"
    /\ warm_result = "running"
    /\ warm_result' = "ok"
    /\ UNCHANGED <<warm_pc, warm_remote, warm_before, warm_original_vals,
                   warm_k, warm_writes, warmups_left, WarmupFrame>>

\* nobody has called warmup
WarmRest ==
    /\ warm_pc = "idle"
    /\ warm_before = WarmupOff
    /\ warm_original_vals = <<>>
    /\ warm_k = 0
    /\ warm_writes = <<>>
    /\ warm_result = "none"

WarmIdle ==
    /\ WarmRest
    /\ warm_remote = WarmupOff
    /\ warmups_left = 0

\* neither discovery nor ROIPlugin.set is in use
ApiIdle ==
    /\ DiscIdle
    /\ RoiIdle
    /\ LogIdle
    /\ WarmIdle

\* no query is running and none may start
PipeIdle ==
    /\ nd_array_port = [n \in Plugins |-> PortName(Cam)]
    /\ call_stack = <<>>
    /\ ret = NoRet
    /\ result = NoResult
    /\ lookups = 0
    /\ rewired = FALSE
    /\ changes_left = 0
    /\ queries_left = 0

\* a plugin of any class under a detector with a camera, with the default
\* directives
Init ==
    /\ _plugin_type \in PluginTypes
    /\ has_cam = TRUE
    /\ stage_sigs = InitStageSigs(<<>>, has_cam)
    /\ remote = RemoteOff
    /\ events_left = MaxEvents
    /\ stages_left = MaxStages
    /\ InitRest
    /\ PipeIdle
    /\ ApiIdle

\* a plugin whose base constructor contributed directives of its own
InitSigs ==
    /\ _plugin_type = ROI
    /\ has_cam \in BOOLEAN
    /\ \E base \in BaseSigs : stage_sigs = InitStageSigs(base, has_cam)
    /\ remote = RemoteOff
    /\ events_left = MaxSigEvents
    /\ stages_left = MaxStages
    /\ InitRest
    /\ PipeIdle
    /\ ApiIdle

\* a detector with any wiring of its plugins; the plugins are not staged
InitPipe ==
    /\ _plugin_type = ROI
    /\ has_cam = TRUE
    /\ stage_sigs = InitStageSigs(<<>>, has_cam)
    /\ remote = RemoteOff
    /\ events_left = 0
    /\ stages_left = 0
    /\ InitRest
    /\ nd_array_port \in [Plugins -> Ports]
    /\ call_stack = <<>>
    /\ ret = NoRet
    /\ result = NoResult
    /\ lookups = 0
    /\ rewired = FALSE
    /\ changes_left = MaxChanges
    /\ queries_left = MaxQueries
    /\ ApiIdle

NextPipe ==
    \/ \E kind \in QueryKinds, plugin \in Plugins : Query(kind, plugin)
    \/ PipelineLookup
    \/ PipelineHasattr
    \/ PipelineReturn
    \/ ConfigurationLookup
    \/ ConfigurationReturn
    \/ QueryReturn
    \/ \E plugin \in Plugins : NamesQuery(plugin)
    \/ NamesReturn
    \/ \E plugin \in Plugins, port \in Ports : SetPort(plugin, port)

\* the module is imported; plugins are discovered, classes are registered
InitDisc ==
    /\ _plugin_type = ROI
    /\ has_cam = TRUE
    /\ stage_sigs = InitStageSigs(<<>>, has_cam)
    /\ remote = RemoteOff
    /\ events_left = 0
    /\ stages_left = 0
    /\ InitRest
    /\ PipeIdle
    /\ DiscRest
    /\ InstRest
    /\ calls_left = MaxCalls
    /\ regs_left = MaxRegs
    /\ RoiIdle
    /\ LogIdle
    /\ WarmIdle

NextDisc ==
    \/ \E cls \in Classes : RegisterPlugin(cls)
    \/ \E pv \in Prefixes : PluginFromPvname(pv)
    \/ \E pv \in Prefixes, t \in Timeouts : GetClassBegin(pv, t)
    \/ \E report \in TypeReports, delay \in Delays : Caget(report, delay)
    \/ GetClassLookup
    \/ \E pv \in Prefixes, kw \in Kwargs : GetPluginBegin(pv, kw)
    \/ GetPluginEnd

\* a ROI plugin whose region is set
InitROI ==
    /\ _plugin_type = ROI
    /\ has_cam = TRUE
    /\ stage_sigs = InitStageSigs(<<>>, has_cam)
    /\ remote = RemoteOff
    /\ events_left = 0
    /\ stages_left = 0
    /\ InitRest
    /\ PipeIdle
    /\ DiscIdle
    /\ RoiRest
    /\ sets_left = MaxSets
    /\ LogIdle
    /\ WarmIdle

NextROI ==
    \/ \E r \in Regions : RoiSet(r)
    \/ RoiLoop
    \/ \E ok \in BOOLEAN, landed \in BOOLEAN : RoiSetMin(ok, landed)
    \/ \E ok \in BOOLEAN, landed \in BOOLEAN : RoiSetSize(ok, landed)
    \/ RoiReduce

vars == <<typeVars, envVars, cbVars, sigVars, stageVars, pipeVars,
         apiVars>>

Next ==
    \/ \E report \in LiveReports : Connect(report)
    \/ Disconnect
    \/ Destroy
    \/ CbRead
    \/ CbWrite
    \/ StageBegin
    \/ ApplyDirective
    \/ ApplyFails
    \/ ApplyDone
    \/ StageCheck
    \/ StageWait
    \/ StageRead
    \/ StageWrite
    \/ StageTest
    \/ StageRaise
    \/ UnstageBegin
    \/ RestoreOne
    \/ RestoreFails
    \/ UnstageDone
    \/ EnableOnStage
    \/ DisableOnStage
    \/ EnsureBlocking
    \/ EnsureNonblocking

\* the same plugin when the type-report point connects and stays connected
NextSigs ==
    \/ \E report \in LiveReports : Connect(report)
    \/ CbRead
    \/ CbWrite
    \/ StageBegin
    \/ ApplyDirective
    \/ ApplyFails
    \/ ApplyDone
    \/ StageCheck
    \/ StageWait
    \/ StageRead
    \/ StageWrite
    \/ StageTest
    \/ StageRaise
    \/ UnstageBegin
    \/ RestoreOne
    \/ RestoreFails
    \/ UnstageDone
    \/ EnableOnStage
    \/ DisableOnStage
    \/ EnsureBlocking
    \/ EnsureNonblocking

\* a plugin whose convenience methods are called in any order
InitCalls ==
    /\ _plugin_type = ROI
    /\ has_cam \in BOOLEAN
    /\ \E base \in BaseSigs : stage_sigs = InitStageSigs(base, has_cam)
    /\ remote = RemoteOff
    /\ events_left = 0
    /\ stages_left = 0
    /\ InitRest
    /\ PipeIdle
    /\ DiscIdle
    /\ RoiIdle
    /\ WarmIdle
    /\ call_log = <<>>
    /\ sigs_before = stage_sigs

NextCalls == \E name \in Methods : Call(name)

\* an HDF5 plugin under a camera in any configuration
InitWarmup ==
    /\ _plugin_type = ROI
    /\ has_cam = TRUE
    /\ stage_sigs = InitStageSigs(<<>>, has_cam)
    /\ remote = RemoteOff
    /\ events_left = 0
    /\ stages_left = 0
    /\ InitRest
    /\ PipeIdle
    /\ DiscIdle
    /\ RoiIdle
    /\ LogIdle
    /\ WarmRest
    /\ warm_remote \in WarmupRemotes
    /\ warmups_left = MaxWarmups

NextWarmup ==
    \/ \E ok, landed \in BOOLEAN : Warmup(ok, landed)
    \/ WarmupSnapshot
    \/ \E ok, landed \in BOOLEAN : WarmupWrite(ok, landed)
    \/ \E ok, landed \in BOOLEAN : WarmupRestore(ok, landed)
    \/ WarmupReturn

Spec == Init /\ [][Next]_vars

SpecSigs == InitSigs /\ [][NextSigs]_vars

SpecPipe == InitPipe /\ [][NextPipe]_vars

SpecDisc == InitDisc /\ [][NextDisc]_vars

SpecROI == InitROI /\ [][NextROI]_vars

SpecCalls == InitCalls /\ [][NextCalls]_vars

SpecWarmup == InitWarmup /\ [][NextWarmup]_vars

TypeOK ==
    /\ _plugin_type \in PluginTypes
    /\ _misconfigured \in {"None", "True", "False"}
    /\ pc \in {"idle", "apply", "check", "wait", "call", "write", "test",
               "raise", "restore"}
    /\ staged \in {"no", "partially", "yes"}
    /\ Len(pending) <= MaxPending

(***************************************************************************)
(* Properties                                                              *)
(***************************************************************************)
Written == {writes[i] : i \in 1..Len(writes)}

DefaultSigs == InitStageSigs(<<>>, has_cam)

\* C1: for a plugin with a declared type, once a check has compared a live
\* report, the state is confirmed-ok ("False") if the report with its
\* trailing version text removed equals the declared type, and confirmed-bad
\* ("True") otherwise.
C1_StrippedReportDecides ==
    last_checked # <<>> =>
        _misconfigured = IF SplitFirst(last_checked) = _plugin_type
                         THEN "False" ELSE "True"

\* C2: whenever stage has ended with the configuration-mismatch error, no
\* staging directive of the plugin has been written by that activation.
C2_MismatchBeforeWrites ==
    outcome = "PluginMisconfigurationError" => writes = <<>>

\* C3: a stage call that reaches the test of the type state (line 108)
\* ends with PluginMisconfigurationError exactly when that test found the
\* state confirmed-bad: it never ends with that error otherwise, and never
\* ends without an error when the state is confirmed-bad.
C3_MismatchIffConfirmedBad ==
    [][ /\ (pc = "test" /\ pc' = "idle") =>
               (_misconfigured # "True" /\ outcome' = "ok")
        /\ (pc = "test" /\ pc' # pc /\ _misconfigured = "True") =>
               pc' = "raise"
        /\ (pc = "raise" /\ pc' = "idle") =>
               outcome' = "PluginMisconfigurationError" ]_vars

\* C4: for a plugin with a declared type, whenever stage returns without an
\* error the type state is confirmed-ok, never unknown.
C4_StageLeavesUnknown ==
    [][ (pc = "test" /\ pc' = "idle" /\ outcome' = "ok"
             /\ _plugin_type # None)
            => _misconfigured' = "False" ]_vars

\* C5 as stated: once the state is confirmed-ok or confirmed-bad, no later
\* step changes it.
C5_ConfirmedOnce ==
    [][ _misconfigured # "None" => _misconfigured' = _misconfigured ]_vars

\* C5 as amended: a confirmed state never returns to unknown, and it changes
\* only when a later check (of a connection notification, or the one a
\* stage call had already started) completes, to the verdict on the report
\* that check read.
C5_ConfirmedNeverUnknown ==
    [][ _misconfigured # "None" =>
          /\ _misconfigured' # "None"
          /\ _misconfigured' # _misconfigured =>
               \/ /\ cb_pc = "write"
                  /\ cb_pc' = "idle"
                  /\ _misconfigured' = Misconfigured(cb_val, _plugin_type)
               \/ /\ pc = "write"
                  /\ pc' = "test"
                  /\ _misconfigured' = Misconfigured(st_val, _plugin_type) ]_vars

\* a confirmed state is about to be changed by the check of a notification
C5_Witness ==
    /\ _misconfigured # "None"
    /\ cb_pc = "write"
    /\ Misconfigured(cb_val, _plugin_type) # _misconfigured

\* C6: a plugin without a declared type is confirmed-ok from construction
\* on, whatever notifications arrive; its stage never waits for the
\* type-report point, never runs the check and never raises the mismatch
\* error.
C6_NoExpectationTerminal ==
    _plugin_type = None =>
        /\ _misconfigured = "False"
        /\ last_checked = <<>>
        /\ cb_pc = "idle"
        /\ pc \notin {"wait", "call", "write", "raise"}
        /\ outcome # "PluginMisconfigurationError"

\* a plugin without a declared type was notified of a connection and of a
\* disconnection and has been staged
C6_Witness ==
    /\ _plugin_type = None
    /\ outcome = "ok"
    /\ events_left <= MaxEvents - 2
    /\ pending = <<>>

\* C7: when the directive set contains 'enable', activation writes 'enable'
\* before every other directive, and deactivation handles 'enable' only
\* after every other point that activation touched.
C7_EnableFirstInLastOut ==
    "enable" \in Keys(stage_sigs) =>
        /\ writes # <<>> => writes[1] = "enable"
        /\ \A i \in 1..Len(restores) :
               restores[i] = "enable" =>
                   Written \ {"enable"} \subseteq
                       {restores[j] : j \in 1..(i - 1)}

\* a base constructor had inserted a directive before 'enable', and the
\* plugin was activated and deactivated completely
C7_Witness ==
    /\ stage_sigs[2][1] = "array_counter"
    /\ Len(stage_sigs) = 4
    /\ staged = "no"
    /\ Len(restores) = 4

\* C8 as stated: during activation with the default directives, once
\* 'enable' has been written, blocking_callbacks and (with a camera parent)
\* parent.cam.array_callbacks have been written too.
C8_NoWindow ==
    (stage_sigs = DefaultSigs /\ pc = "apply" /\ "enable" \in Written) =>
        /\ "blocking_callbacks" \in Written
        /\ has_cam => "parent.cam.array_callbacks" \in Written

\* C8 as amended: during activation with the default directives 'enable'
\* is written first, the other two points after it, and once the directives
\* have been applied all of them hold their target values.
C8_ConfiguredAtCompletion ==
    stage_sigs = DefaultSigs =>
        /\ Written # {} => "enable" \in Written
        /\ (staged = "yes" /\ pc # "restore") =>
               /\ remote["enable"] = 1
               /\ remote["blocking_callbacks"] = "Yes"
               /\ has_cam => remote["parent.cam.array_callbacks"] = 1

\* the default directives of a plugin under a camera have all been applied
C8_Witness ==
    /\ stage_sigs = DefaultSigs
    /\ has_cam
    /\ pc = "check"
    /\ Len(writes) = 3

\* number of source-port references from n to the camera; Unrooted when
\* following them does not reach the camera
Unrooted == Cardinality(Plugins) + 1

RECURSIVE Depth(_, _)
Depth(n, fuel) ==
    IF n = Cam THEN 0
    ELSE IF n = NoPlugin \/ fuel = 0 THEN Unrooted
    ELSE LET d == Depth(get_plugin_by_asyn_port(nd_array_port[n]), fuel - 1)
         IN  IF d = Unrooted THEN Unrooted ELSE d + 1

Rooted(n) == Depth(n, Cardinality(Plugins)) # Unrooted

\* the outermost frame of a query of kind `kind` has just returned, and no
\* source port changed while it ran
Returned(kind) ==
    /\ call_stack = <<>>
    /\ ret.status = "value"
    /\ result.kind = kind
    /\ ~rewired

\* C9: on a topology in which the queried plugin is connected to the root
\* source, the chain returned by _asyn_pipeline starts with the root source,
\* ends with the queried plugin, links each element to the next through the
\* port index, has one element more than the depth of the plugin and
\* repeats no element.
C9_ChainFromRoot ==
    (Returned("_asyn_pipeline") /\ Rooted(result.of)) =>
        LET chain == ret.value
        IN  /\ chain[1] = Cam
            /\ chain[Len(chain)] = result.of
            /\ \A i \in 1..(Len(chain) - 1) :
                   chain[i] = get_plugin_by_asyn_port(nd_array_port[chain[i + 1]])
            /\ Len(chain) = Depth(result.of, Cardinality(Plugins)) + 1
            /\ \A i, j \in 1..Len(chain) : chain[i] = chain[j] => i = j

\* the chain of a plugin at depth 3 has been returned
C9_Witness ==
    /\ Returned("_asyn_pipeline")
    /\ Rooted(result.of)
    /\ Len(ret.value) = 4

\* C10: the merged configuration of a plugin holds the fields of its
\* upstream plugin before its own fields, and under a field name both
\* provide it holds the value of the downstream plugin.
C10_AncestorsFirst ==
    \A kind \in {"read_configuration", "describe_configuration"} :
        (Returned(kind) /\ Rooted(result.of)) =>
            LET merged == ret.value
                upstream == get_plugin_by_asyn_port(nd_array_port[result.of])
            IN  /\ IndexOf(merged, PortName(upstream))
                       < IndexOf(merged, PortName(result.of))
                /\ Value(merged, "model")[2] = result.of

Reverse(s) == [i \in 1..Len(s) |-> s[Len(s) + 1 - i]]

\* C17: deactivation handles the points activation wrote in reverse order
\* of writing, whether or not an earlier restore failed; when it has
\* finished, every written point whose restore did not fail holds the value
\* it had when activation began.
C17_RoundTrip ==
    /\ pc = "restore" =>
           restores = Reverse(SubSeq(writes, k + 1, Len(writes)))
    /\ (pc = "idle" /\ staged = "no" /\ writes # <<>>) =>
           /\ restores = Reverse(writes)
           /\ \A key \in Written \ restore_failed :
                  remote[key] = Value(original_vals, key)

\* a deactivation has finished in which one restore failed and a point
\* handled after it got back a value that activation had changed
C17_Witness ==
    /\ pc = "idle"
    /\ staged = "no"
    /\ \E i, j \in 1..Len(restores) :
           /\ i < j
           /\ restores[i] \in restore_failed
           /\ restores[j] \notin restore_failed
           /\ Value(stage_sigs, restores[j]) # remote[restores[j]]

\* C18: when the type report is read by _plugin_type_connected while its
\* signal is destroyed, the check ends there: no error is handed to the
\* caller, no warning is logged and the type state is left as it was; when
\* the read fails because the signal is disconnected, the error is raised
\* to the caller.
C18_DestroyedSkipsCheck ==
    [][ /\ (pending # <<>> /\ pending' = Tail(pending) /\ Head(pending)
            /\ _plugin_type # None) =>
               /\ destroyed =>
                      /\ cb_error' = "none"
                      /\ cb_pc' = "idle"
                      /\ UNCHANGED typeVars
               /\ (~destroyed /\ ~connected) =>
                      /\ cb_error' = "ConnectionTimeoutError"
                      /\ UNCHANGED typeVars
        /\ (pc = "call" /\ pc' # pc /\ _plugin_type # None) =>
               /\ destroyed =>
                      /\ pc' = "test"
                      /\ outcome' = outcome
                      /\ UNCHANGED typeVars
               /\ (~destroyed /\ ~connected) =>
                      /\ pc' = "idle"
                      /\ outcome' = "ConnectionTimeoutError"
                      /\ UNCHANGED typeVars ]_vars

\* the explicit check of an activation met a destroyed signal and left the
\* type state unknown
C18_Witness ==
    /\ destroyed
    /\ pc = "test"
    /\ _plugin_type # None
    /\ _misconfigured = "None"
    /\ warnings = 0
    /\ outcome = "running"

\* C19: when an activation has failed on its k-th directive, the error is
\* the timeout error and not the mismatch error, the type check has not
\* run, directives 1..k-1 are written and hold their target values, and
\* directive k and those after it are not written: their points hold the
\* snapshot values.
C19_FailureKeepsPartialWrites ==
    (pc = "idle" /\ staged = "partially" /\ outcome # "running") =>
        /\ outcome = "TimeoutError"
        /\ outcome # "PluginMisconfigurationError"
        /\ k \in 1..Len(stage_sigs)
        /\ writes = [i \in 1..(k - 1) |-> stage_sigs[i][1]]
        /\ \A i \in 1..(k - 1) : remote[stage_sigs[i][1]] = stage_sigs[i][2]
        /\ \A i \in k..Len(stage_sigs) :
               remote[stage_sigs[i][1]] = original_vals[i][2]

\* an activation has failed on its third directive after two writes that
\* changed their points
C19_Witness ==
    /\ pc = "idle"
    /\ staged = "partially"
    /\ outcome = "TimeoutError"
    /\ k = 3
    /\ \A i \in 1..2 : remote[stage_sigs[i][1]] # original_vals[i][2]

\* what a query of `kind` of plugin n returns on the present source ports
RECURSIVE Expected(_, _, _)
Expected(kind, n, fuel) ==
    LET up == get_plugin_by_asyn_port(nd_array_port[n])
    IN  IF kind = "_asyn_pipeline"
        THEN IF up \in Plugins /\ fuel > 0
             THEN Expected(kind, up, fuel - 1) \o <<n>>
             ELSE <<up, n>>
        ELSE Update(OwnConfiguration(kind, n),
                    IF up \in Plugins /\ fuel > 0
                    THEN Expected(kind, up, fuel - 1)
                    ELSE OwnConfiguration(kind, Cam))

\* C20: a step of _asyn_pipeline, read_configuration or
\* describe_configuration changes no source port, no remote point and no
\* plugin state, and the value a query returns is the one determined by the
\* source ports as they are when it returns: the same for unchanged ports,
\* that of the new topology after a change.
C20_PureUncached ==
    [][ /\ (call_stack' # call_stack \/ ret' # ret \/ result' # result) =>
               UNCHANGED <<nd_array_port, stagingVars, apiVars>>
        /\ (result.status = "running" /\ result'.status = "ok"
            /\ result.kind \in QueryKinds /\ ~rewired) =>
               result'.value =
                   Expected(result.kind, result.of, Cardinality(Plugins))
      ]_vars

\* the same call has returned twice, a source port changed in between, and
\* the second value is that of the new topology and differs from the first
C20_Witness ==
    /\ result.status = "ok"
    /\ ~result.rewired
    /\ result.kind = "_asyn_pipeline"
    /\ result.before # <<>>
    /\ result.before # result.value
    /\ result.value = Expected(result.kind, result.of, Cardinality(Plugins))
    /\ Len(result.value) = 4

\* the pattern matches the end of pv
MatchesEnd(pattern, pv) ==
    /\ Len(pattern) <= Len(pv)
    /\ MatchAt(pattern, pv, Len(pv) - Len(pattern) + 1)

\* the step is a call of plugin_from_pvname
IsPluginFromPvname ==
    /\ calls_left' < calls_left
    /\ disc_result'.call = "plugin_from_pvname"

\* C11: plugin_from_pvname returns StatsPlugin for every prefix that ends
\* in "Stats", a digit and ":" (while StatsPlugin is the class registered
\* for its type), and whenever the pattern of a registered class matches
\* the end of the prefix, the pattern of the returned class does.
C11_SuffixDecides ==
    [][ IsPluginFromPvname =>
            LET pv == disc_prefix'
                cls == disc_result'.value
            IN  /\ (/\ MatchesEnd(suffix_re_of("StatsPlugin"), pv)
                    /\ Value(_plugin_class, Stats) = "StatsPlugin") =>
                       cls = "StatsPlugin"
                /\ \A i \in 1..Len(_plugin_class) :
                       MatchesEnd(suffix_re_of(_plugin_class[i][2]), pv) =>
                           /\ cls # NoClass
                           /\ MatchesEnd(suffix_re_of(cls), pv) ]_vars

\* cls is the class of the first entry of d whose pattern is found in pv,
\* or no class when no pattern is found
FirstMatch(d, pv, cls) ==
    IF cls = NoClass
    THEN \A i \in 1..Len(d) : ~re_search(suffix_re_of(d[i][2]), pv)
    ELSE \E i \in 1..Len(d) :
             /\ d[i][2] = cls
             /\ re_search(suffix_re_of(d[i][2]), pv)
             /\ \A j \in 1..(i - 1) : ~re_search(suffix_re_of(d[j][2]), pv)

\* C12: plugin_from_pvname issues no remote read and returns the class of
\* the first registry entry, in iteration order, whose pattern is found in
\* the prefix, or None when there is none; a remote read is issued only by
\* get_areadetector_plugin_class, one per call, and only when no registered
\* pattern is found in its prefix.
C12_PatternOnly ==
    [][ /\ IsPluginFromPvname =>
               /\ cagets' = cagets
               /\ ~disc_result'.read
               /\ disc_result'.status = "return"
               /\ FirstMatch(_plugin_class, disc_prefix', disc_result'.value)
        /\ cagets' # cagets =>
               /\ cagets' = cagets + 1
               /\ disc_result'.call = "get_areadetector_plugin_class"
               /\ calls_left' < calls_left
               /\ FirstMatch(_plugin_class, disc_prefix', NoClass)
        /\ (calls_left' < calls_left
            /\ ~FirstMatch(_plugin_class, disc_prefix', NoClass)) =>
               /\ cagets' = cagets
               /\ disc_result'.status = "return"
               /\ FirstMatch(_plugin_class, disc_prefix', disc_result'.value)
      ]_vars

\* plugin_from_pvname has returned the first of two classes whose patterns
\* are both found in the prefix
C12_Witness ==
    /\ disc_result.call = "plugin_from_pvname"
    /\ disc_result.status = "return"
    /\ disc_prefix = Stats7 \o ROI2
    /\ disc_result.value = "StatsPlugin"
    /\ cagets = 0

\* C13 as stated: the failure for an unregistered type identifier and the
\* failure for a read that timed out are different errors.
C13_DistinctErrors ==
    \A e1, e2 \in errors : e1[1] # e2[1] => e1[2] # e2[2]

\* cut is report up to, not including, its first space
IsCut(report, cut) ==
    \E n \in 0..Len(report) :
        /\ cut = SubSeq(report, 1, n)
        /\ \A i \in 1..n : report[i] # " "
        /\ n = Len(report) \/ report[n + 1] = " "

\* C13: after the remote read, get_areadetector_plugin_class returns the
\* class registered under the report cut at its first space; it raises
\* ValueError when that identifier is not a registry key and ValueError
\* again when the read returned nothing within the timeout: the two
\* failures have the same exception type and differ in their message only.
C13_FallbackLookup ==
    /\ [][ (disc_pc = "lookup" /\ disc_pc' = "idle") =>
               IF type_ = None
               THEN /\ disc_result'.status = "raise"
                    /\ disc_result'.error.type = ValueError
                    /\ disc_result'.error.message = TimedOut.message
               ELSE \E cut \in {SubSeq(type_, 1, n) : n \in 0..Len(type_)} :
                        /\ IsCut(type_, cut)
                        /\ IF \E i \in 1..Len(_plugin_class) :
                                  _plugin_class[i][1] = cut
                           THEN /\ disc_result'.status = "return"
                                /\ \E i \in 1..Len(_plugin_class) :
                                       /\ _plugin_class[i][1] = cut
                                       /\ _plugin_class[i][2] =
                                              disc_result'.value
                           ELSE /\ disc_result'.status = "raise"
                                /\ disc_result'.error.type = ValueError
                                /\ disc_result'.error.message
                                       # TimedOut.message ]_vars
    /\ [](\A e \in errors : e[2] = ValueError)

\* one call has failed on a timeout and one on an unregistered type
C13_Witness ==
    /\ <<"timeout", ValueError>> \in errors
    /\ <<"unregistered", ValueError>> \in errors
    /\ disc_pc = "idle"

\* C14: no step removes a key of the registry; a registration maps the
\* type identifier of the class to the class, replacing the class that was
\* there, returns the class, and leaves every other entry as it was; no
\* other step changes the registry.
C14_GrowOrOverwrite ==
    [][ /\ Keys(_plugin_class) \subseteq Keys(_plugin_class')
        /\ regs_left' < regs_left =>
               LET key == plugin_type_of(reg_result')
               IN  /\ reg_result' \in Classes
                   /\ Keys(_plugin_class') = Keys(_plugin_class) \cup {key}
                   /\ Value(_plugin_class', key) = reg_result'
                   /\ \A other \in Keys(_plugin_class) \ {key} :
                          Value(_plugin_class', other)
                              = Value(_plugin_class, other)
        /\ regs_left' = regs_left => _plugin_class' = _plugin_class ]_vars

\* a class has been registered under an identifier that was taken, and the
\* registry maps the identifier to it
C14_Witness ==
    /\ reg_result = "UserStatsPlugin"
    /\ Len(_plugin_class) = Len(ModuleRegistry)
    /\ Value(ModuleRegistry, Stats) = "StatsPlugin"
    /\ Value(_plugin_class, Stats) = "UserStatsPlugin"

\* the writes a call of ROIPlugin.set with region r issues, in order
RECURSIVE ExpectedPuts(_)
ExpectedPuts(r) ==
    IF r = <<>> THEN <<>>
    ELSE << <<MinPoint(r[1][1]), r[1][2][1]>>,
            <<SizePoint(r[1][1]), r[1][2][2]>> >> \o ExpectedPuts(Tail(r))

\* a call of ROIPlugin.set has ended
RoiDone == roi_pc = "idle" /\ roi_result.status \in {"return", "raise"}

\* C15: a call of ROIPlugin.set with a region that names at least one axis
\* has issued, for each axis of the region in turn, the write of its
\* minimum point and then the write of its size point, and no other write;
\* it returns success exactly when every write succeeded; every point
\* whose write succeeded holds its new value, whatever the result is.
C15_TwoWritesPerAxis ==
    (RoiDone /\ ~region.is_none /\ region.items # <<>>) =>
        /\ roi_puts = ExpectedPuts(region.items)
        /\ Len(status.list) = 2 * Len(region.items)
        /\ roi_result.status = "return"
        /\ roi_result.value =
               (\A i \in 1..Len(status.list) : status.list[i])
        /\ \A i \in 1..Len(status.list) :
               status.list[i] =>
                   roi_remote[roi_puts[i][1]] = roi_puts[i][2]

\* the call set {'x': (10, 100)}: the write of the minimum succeeded, the
\* write of the size failed, the result is failure and the minimum holds 10
C15_Witness ==
    /\ RoiDone
    /\ region = Dict(<<Item("x")>>)
    /\ status = List(<<TRUE, FALSE>>)
    /\ roi_result.status = "return"
    /\ roi_result.value = FALSE
    /\ roi_remote[MinPoint("x")] = 10
    /\ roi_remote[SizePoint("x")] = RoiRemoteOff[SizePoint("x")]

\* C16: every call of ROIPlugin.set, whatever subset of the axes its region
\* names and also when the region is None, ends by returning a result.
C16_AnySubsetAccepted ==
    RoiDone => roi_result.status = "return"

\* C21: when get_areadetector_plugin ends, either the class call returned a
\* class and the result is one new instance of exactly that class, built
\* with the prefix and the keyword arguments of the call, or the class call
\* raised and the same ValueError is raised with no instance constructed.
C21_InstanceOfResolvedClass ==
    [][ (plugin_pc = "class" /\ plugin_pc' = "idle") =>
            /\ disc_result.call = "get_areadetector_plugin_class"
            /\ IF disc_result.status = "return"
               THEN /\ plugin_result'.status = "return"
                    /\ plugin_result'.value.cls = disc_result.value
                    /\ plugin_result'.value.cls # NoClass
                    /\ plugin_result'.value.prefix = disc_prefix
                    /\ plugin_result'.value.kwargs = kwargs
                    /\ instances' = Append(instances, plugin_result'.value)
               ELSE /\ plugin_result'.status = "raise"
                    /\ plugin_result'.error = disc_result.error
                    /\ plugin_result'.error.type = ValueError
                    /\ instances' = instances ]_vars

\* one call has failed on an unresolvable type and constructed nothing, and
\* another has returned an instance of a class resolved by the remote read
C21_Witness ==
    /\ plugin_pc = "idle"
    /\ plugin_result.status = "return"
    /\ disc_result.read
    /\ plugin_result.value.cls = "StatsPlugin"
    /\ plugin_result.value.kwargs # <<>>
    /\ Len(instances) = 1
    /\ errors # {}

CamKey == "parent.cam.array_callbacks"

Once(d, key) == Cardinality({i \in 1..Len(d) : d[i][1] = key}) = 1

\* C22: right after construction the directives hold enable -> 1 as the
\* first key, blocking_callbacks -> 'Yes' after it, and
\* parent.cam.array_callbacks -> 1 as the last key exactly when the parent
\* has a cam; each of them occurs once, whatever the base constructor had
\* inserted.  The camera directive stays present exactly when the parent has
\* a cam.
C22_DirectivesAfterConstruction ==
    /\ stage_sigs[1] = <<"enable", 1>>
    /\ Once(stage_sigs, "enable")
    /\ Once(stage_sigs, "blocking_callbacks")
    /\ Value(stage_sigs, "blocking_callbacks") = "Yes"
    /\ (CamKey \in Keys(stage_sigs)) <=> has_cam
    /\ has_cam =>
           /\ Once(stage_sigs, CamKey)
           /\ stage_sigs[Len(stage_sigs)] = <<CamKey, 1>>
           /\ IndexOf(stage_sigs, "blocking_callbacks") < Len(stage_sigs)
    /\ Len(stage_sigs) = (IF has_cam THEN 3 ELSE 2) =>
           stage_sigs[2] = <<"blocking_callbacks", "Yes">>
    /\ []((CamKey \in Keys(stage_sigs)) <=> has_cam)

\* a plugin under a parent with a cam whose base constructor had inserted
\* another directive and then 'enable' with the value 0, just constructed
C22_Witness ==
    /\ stage_sigs = << <<"enable", 1>>, <<"array_counter", 0>>,
                       <<"blocking_callbacks", "Yes">>, <<CamKey, 1>> >>
    /\ has_cam
    /\ outcome = "none"
    /\ stages_left = MaxStages
    /\ events_left = MaxSigEvents

\* C26: while one report is live on the type-report point, stage ends with
\* the mismatch error only for a report that does not match and returns only
\* for one that matches, and then the type state is the verdict on that
\* report, whether the check was run by the callback, by stage or by both in
\* any order; stage decides on nothing but that verdict.
C26_InterleavingFree ==
    LET verdict == Misconfigured(live, _plugin_type)
    IN  /\ outcome \in {"ok", "PluginMisconfigurationError"} => connected
        /\ connected =>
               /\ _misconfigured \in {"None", verdict}
               /\ pc \in {"test", "raise"} => _misconfigured = verdict
               /\ outcome = "PluginMisconfigurationError" =>
                      verdict = "True" /\ _misconfigured = "True"
               /\ outcome = "ok" =>
                      verdict = "False" /\ _misconfigured = "False"

\* stage ran the check itself and raised while the callback, which had read
\* the same report before, has not yet written its verdict
C26_Witness ==
    /\ outcome = "PluginMisconfigurationError"
    /\ cb_pc = "write"
    /\ cb_val = live
    /\ st_val = live
    /\ _misconfigured = "True"

\* C27: a class that get_areadetector_plugin_class resolved through the
\* remote read declares a type the report it read starts with: the check of
\* an instance of that class against the same report gives confirmed-ok, so
\* its activation does not end with the mismatch error.
C27_DiscoveryAgreesWithValidation ==
    (disc_pc = "idle" /\ disc_result.status = "return" /\ disc_result.read) =>
        /\ type_ # None
        /\ plugin_type_of(disc_result.value) = SplitFirst(type_)
        /\ Misconfigured(type_, plugin_type_of(disc_result.value)) = "False"

\* the read answered with a report carrying a version, no pattern had
\* matched the prefix, and the class registered for the type was returned
C27_Witness ==
    /\ disc_pc = "idle"
    /\ disc_result.status = "return"
    /\ disc_result.read
    /\ type_ = HDF5 \o Version
    /\ disc_result.value = "HDF5Plugin"
    /\ plugin_from_pvname(_plugin_class, disc_prefix) = NoClass

\* the members from the root to n, following the source ports
RECURSIVE ChainTo(_, _)
ChainTo(n, fuel) ==
    IF n = Cam \/ n = NoPlugin \/ fuel = 0 THEN <<n>>
    ELSE Append(ChainTo(get_plugin_by_asyn_port(nd_array_port[n]), fuel - 1),
                n)

\* C23: on a topology in which the queried plugin is connected to the root
\* source, _asyn_pipeline_configuration_names returns one name per member of
\* the chain, in the order of the chain from the root to the queried plugin:
\* as many names as the chain has members, the i-th the name of the
\* configuration_names signal of the i-th member.
C23_OneNamePerMember ==
    (Returned(NamesKind) /\ Rooted(result.of)) =>
        LET names == ret.value
            chain == ChainTo(result.of, Cardinality(Plugins))
        IN  /\ Len(names) = Depth(result.of, Cardinality(Plugins)) + 1
            /\ Len(names) = Len(chain)
            /\ \A i \in 1..Len(names) : names[i] = ConfigurationName(chain[i])
            /\ names[1] = ConfigurationName(Cam)
            /\ names[Len(names)] = ConfigurationName(result.of)

\* the names of a plugin at depth 2 have been returned
C23_Witness ==
    /\ Returned(NamesKind)
    /\ Rooted(result.of)
    /\ Len(ret.value) = 3
    /\ ret.value[2] # ConfigurationName(result.of)

\* C24: (as stated) the resolution of the chain of a plugin connected to the
\* root source finishes after one port lookup per level of the chain.
C24_OneLookupPerLevel ==
    (Returned("_asyn_pipeline") /\ Rooted(result.of)) =>
        lookups = Depth(result.of, Cardinality(Plugins))

\* the last call recorded that is one of `names`, or "none"
LastCall(names) ==
    LET at == {i \in 1..Len(call_log) : call_log[i] \in names}
    IN  IF at = {} THEN "none"
        ELSE call_log[CHOOSE i \in at : \A j \in at : j <= i]

SnapshotOf(values) ==
    [i \in 1..Len(WarmupSigs) |->
        <<WarmupSigs[i][1], values[WarmupSigs[i][1]]>>]

\* C28: warmup takes the snapshot of the six camera signals before it
\* writes any of them, writes the warm-up values in the order of the
\* signals and then the snapshot in the reverse order; when every write
\* succeeded each of the six signals holds the value it had before warmup,
\* and the plugin's own enable, set to 1 first, is left at 1.
C28_WarmupRestoresCamera ==
    /\ Len(warm_writes) >= 2 => warm_original_vals = SnapshotOf(warm_before)
    /\ warm_pc \in {"write", "restore"} =>
           /\ warm_original_vals = SnapshotOf(warm_before)
           /\ warm_writes[1] = <<"enable", 1>>
    /\ warm_pc = "write" =>
           warm_writes = << <<"enable", 1>> >>
                             \o SubSeq(WarmupSigs, 1, warm_k - 1)
    /\ warm_result = "ok" =>
           /\ warm_writes = << <<"enable", 1>> >> \o WarmupSigs
                                \o Reverse(SnapshotOf(warm_before))
           /\ \A key \in Keys(WarmupSigs) :
                  warm_remote[key] = warm_before[key]
           /\ warm_remote["enable"] = 1

\* warmup has returned on a plugin that was disabled, under a camera none
\* of whose six signals held its warm-up value
C28_Witness ==
    /\ warm_result = "ok"
    /\ warm_before["enable"] = 0
    /\ warm_remote["enable"] = 1
    /\ \A i \in 1..Len(WarmupSigs) :
           warm_remote[WarmupSigs[i][1]] # WarmupSigs[i][2]

====
